---- MODULE Spec2Model ----
(***************************************************************************)
(* Model of the stateful policy assistant of blog-02 (agent.py, api.py)    *)
(* and of the lookup tool shared with blog-01.                             *)
(*                                                                         *)
(* The FastAPI handlers are `async def`, so every request runs as a task   *)
(* of one event loop: code between two awaits is atomic.  ask_agent has    *)
(* a single suspension, the `async for` over _agent.invoke(history).       *)
(* ChatHistory objects are mutable and shared by reference, so they live   *)
(* in a heap and _sessions holds references into it.                       *)
(***************************************************************************)
EXTENDS Integers, Sequences, FiniteSets

\* ---- bounds of the model ----
MaxCalls == 2
MaxResets == 2

Tasks == {"t1", "t2"}
Sessions == {"s1", "s2"}
Questions == {"What is the freeze policy?"}
Answers == {"answer"}
Contents == {"", "Freeze starts Monday.", "SEV1: page the on-call."}
Keys == {"release-freeze", "incident-sev1"}
LookupKeys == Keys \cup {"RELEASE-FREEZE", "unknown"}

\* A ChatHistory lives in a slot of the heap.  At most one object per session and one per
\* running request is referenced at a time, and a freed slot is taken again.
Slots == 1..(Cardinality(Sessions) + Cardinality(Tasks))

None == 0
ModelCallFailed == "ModelCallFailed"
KeyError == "KeyError"
NotFound == "Policy not found. Please check with your Release Manager."
NotFoundV1 == "No policy found for that key."

VARIABLES
    FAQ,           \* the knowledge store: a dict key -> content
    _sessions,     \* session_id -> reference to a ChatHistory, or None
    heap,          \* the ChatHistory objects: slot -> messages (<<>> for a free slot)
    pc,            \* per request task: "idle", "invoke" (suspended, history not yet read), "await" (model called)
    session_id,    \* ask_agent's parameter
    question,      \* ask_agent's parameter
    history,       \* ask_agent's local: the reference returned by get_or_create_history
    turn,          \* the running invocation's user message: its position in the history object
    submitted,     \* the messages the model received from invoke(history)
    returned,      \* what the last /ask or /reset request to finish gave its caller: a body or an exception
    toolResult,    \* last lookup_faq call: which tool, its key and the text returned
    nCalls,        \* number of ask_agent invocations started
    prior,         \* history variable: content of the session's history when the invocation entered
    alone,         \* history variable: no other ask_agent or reset on the session overlapped the invocation
    completed,     \* history variable: ask_agent invocations that returned, per session not spoiled
    spoiled,       \* history variable: the session was reset or one of its invocations failed
    resets         \* history variable: reset calls on the session since its last get_or_create_history

vars == <<FAQ, _sessions, heap, pc, session_id, question, history, turn, submitted,
          returned, toolResult, nCalls, prior, alone, completed, spoiled, resets>>

\* ---- data ----
\* A ChatMessageContent.  `re` tells the objects apart that have equal fields: for a
\* user message it is 0, for a reply the position of the user message it answers.
Message(role, content, re) == [role |-> role, content |-> content, re |-> re]

FaqStores == UNION {[D -> Contents] : D \in SUBSET Keys}

InFlight(t) == pc[t] \in {"invoke", "await"}

Registered(s) == _sessions[s] # None

\* The history the store holds for a session: empty when there is no entry.
Stored(s) == IF Registered(s) THEN heap[_sessions[s]] ELSE <<>>

\* ---- the lookup tool ----
\* dict.get(key, default)
get(d, key, default) == IF key \in DOMAIN d THEN d[key] ELSE default

\* Variant: `FAQ.get(key) or sentinel`, which loses an empty document.
lookup_faq_or(key) == IF get(FAQ, key, "") # "" THEN FAQ[key] ELSE NotFound

lookup_faq(key) == get(FAQ, key, NotFound)

lookup_faq_v1(key) == get(FAQ, key, NotFoundV1)

\* ---- the session store ----
\* CPython frees a ChatHistory when its last reference goes away.
Refs(sess, hist) == {sess[s] : s \in Sessions} \cup {hist[t] : t \in Tasks}

Collect(h, refs) == [o \in DOMAIN h |-> IF o \in refs THEN h[o] ELSE <<>>]

\* ChatHistory(): a new, empty object in a slot nothing references.
NewHistory ==
    CHOOSE o \in Slots \ Refs(_sessions, history) :
        \A x \in Slots \ Refs(_sessions, history) : o <= x

\* Variant: no membership test, a new history on every call.
get_or_create_history_always(s) ==
    [sessions |-> [_sessions EXCEPT ![s] = NewHistory],
     heap |-> [heap EXCEPT ![NewHistory] = <<>>],
     handle |-> NewHistory]

\* Variant: the session id ignored, one history for everybody.
get_or_create_history_default(s) ==
    LET d == CHOOSE x \in Sessions : TRUE IN
    IF _sessions[d] = None
    THEN [sessions |-> [_sessions EXCEPT ![d] = NewHistory],
          heap |-> [heap EXCEPT ![NewHistory] = <<>>],
          handle |-> NewHistory]
    ELSE [sessions |-> _sessions, heap |-> heap, handle |-> _sessions[d]]

get_or_create_history(s) ==
    IF _sessions[s] = None
    THEN [sessions |-> [_sessions EXCEPT ![s] = NewHistory],
          heap |-> [heap EXCEPT ![NewHistory] = <<>>],
          handle |-> NewHistory]
    ELSE [sessions |-> _sessions, heap |-> heap, handle |-> _sessions[s]]

\* dict.pop(key[, default]): removes the key; without a default an absent key raises.
pop(d, k, hasDefault) ==
    [d |-> [d EXCEPT ![k] = None], raised |-> (d[k] = None /\ ~hasDefault)]

\* Variant: pop without its default.
reset_session_nodefault(s) == pop(_sessions, s, FALSE)

\* Variant: the entry left in the map.
reset_session_keep(s) == [d |-> _sessions, raised |-> FALSE]

reset_session(s) == pop(_sessions, s, TRUE)

\* ---- ChatHistory methods ----
add_user_message(h, q) == Append(h, Message("user", q, 0))

\* Variant: the answer not persisted.
add_assistant_message_skip(h, a, re) == h

add_assistant_message(h, a, re) == Append(h, Message("assistant", a, re))

\* Variant: only the newest message reaches the model, as in the stateless blog-01 agent.
invoke_last_only(h) == <<h[Len(h)]>>

\* What _agent.invoke(history) hands to the model: the whole history.
invoke(h) == h

\* What a finished call gave its caller: the value returned or the exception raised.
Returned(op, raised, value) == [op |-> op, raised |-> raised, value |-> value]

Min(a, b) == IF a < b THEN a ELSE b

\* ---- initial state: module import ----
NoTool == [tool |-> "", key |-> "", text |-> ""]

InitStore ==
    /\ _sessions = [s \in Sessions |-> None]
    /\ heap = [o \in Slots |-> <<>>]
    /\ pc = [t \in Tasks |-> "idle"]
    /\ session_id = [t \in Tasks |-> ""]
    /\ question = [t \in Tasks |-> ""]
    /\ history = [t \in Tasks |-> None]
    /\ turn = [t \in Tasks |-> 0]
    /\ submitted = [t \in Tasks |-> <<>>]
    /\ returned = Returned("", "", None)
    /\ toolResult = NoTool
    /\ nCalls = 0
    /\ prior = [t \in Tasks |-> <<>>]
    /\ alone = [t \in Tasks |-> FALSE]
    /\ completed = [s \in Sessions |-> 0]
    /\ spoiled = [s \in Sessions |-> FALSE]
    /\ resets = [s \in Sessions |-> 0]

Init ==
    /\ FAQ = [k \in Keys |-> "Freeze starts Monday."]
    /\ InitStore

\* The frame of ask_agent is gone once it returns or raises.
Return(t) ==
    /\ pc' = [pc EXCEPT ![t] = "idle"]
    /\ session_id' = [session_id EXCEPT ![t] = ""]
    /\ question' = [question EXCEPT ![t] = ""]
    /\ history' = [history EXCEPT ![t] = None]
    /\ turn' = [turn EXCEPT ![t] = 0]
    /\ submitted' = [submitted EXCEPT ![t] = <<>>]
    /\ prior' = [prior EXCEPT ![t] = <<>>]
    /\ alone' = [alone EXCEPT ![t] = FALSE]

\* Variant: ask_agent under a per-session lock, a second call waits for the first.
AskStartSerialized(t, s, q) ==
    /\ pc[t] = "idle"
    /\ nCalls < MaxCalls
    /\ ~\E v \in Tasks \ {t} : InFlight(v) /\ session_id[v] = s
    /\ LET r == get_or_create_history(s)
           h == add_user_message(r.heap[r.handle], q)
       IN /\ _sessions' = r.sessions
          /\ history' = [history EXCEPT ![t] = r.handle]
          /\ prior' = [prior EXCEPT ![t] = r.heap[r.handle]]
          /\ turn' = [turn EXCEPT ![t] = Len(h)]
          /\ heap' = Collect([r.heap EXCEPT ![r.handle] = h], Refs(_sessions', history'))
    /\ nCalls' = nCalls + 1
    /\ pc' = [pc EXCEPT ![t] = "invoke"]
    /\ session_id' = [session_id EXCEPT ![t] = s]
    /\ question' = [question EXCEPT ![t] = q]
    /\ alone' = [u \in Tasks |-> IF u = t THEN TRUE ELSE alone[u]]
    /\ resets' = [resets EXCEPT ![s] = 0]
    /\ UNCHANGED <<FAQ, submitted, returned, toolResult, completed, spoiled>>

\* ---- ask_agent up to its suspension: lines 116-121 ----
AskStart(t, s, q) ==
    /\ pc[t] = "idle"
    /\ nCalls < MaxCalls
    /\ LET r == get_or_create_history(s)
           h == add_user_message(r.heap[r.handle], q)
       IN /\ _sessions' = r.sessions
          /\ history' = [history EXCEPT ![t] = r.handle]
          /\ prior' = [prior EXCEPT ![t] = r.heap[r.handle]]
          /\ turn' = [turn EXCEPT ![t] = Len(h)]
          /\ heap' = Collect([r.heap EXCEPT ![r.handle] = h], Refs(_sessions', history'))
    /\ nCalls' = nCalls + 1
    /\ pc' = [pc EXCEPT ![t] = "invoke"]
    /\ session_id' = [session_id EXCEPT ![t] = s]
    /\ question' = [question EXCEPT ![t] = q]
    /\ alone' = [u \in Tasks |->
                    IF u = t THEN ~\E v \in Tasks \ {t} : InFlight(v) /\ session_id[v] = s
                    ELSE IF InFlight(u) /\ session_id[u] = s THEN FALSE
                    ELSE alone[u]]
    /\ resets' = [resets EXCEPT ![s] = 0]
    /\ UNCHANGED <<FAQ, submitted, returned, toolResult, completed, spoiled>>

\* ---- inside _agent.invoke: the model call reads the history ----
Submit(t) ==
    /\ pc[t] = "invoke"
    /\ submitted' = [submitted EXCEPT ![t] = invoke(heap[history[t]])]
    /\ pc' = [pc EXCEPT ![t] = "await"]
    /\ UNCHANGED <<FAQ, _sessions, heap, session_id, question, history, turn, returned,
                   toolResult, nCalls, prior, alone, completed, spoiled, resets>>

\* Variant: ask_agent looking the history up again by session id when the answer arrives.
CompleteRefetch(t, a) ==
    /\ pc[t] = "await"
    /\ LET r == get_or_create_history(session_id[t])
       IN /\ _sessions' = r.sessions
          /\ returned' = Returned("ask", "", [answer |-> a, session_id |-> session_id[t]])
          /\ completed' = [completed EXCEPT ![session_id[t]] = IF spoiled[session_id[t]] THEN @ ELSE @ + 1]
          /\ Return(t)
          /\ heap' = Collect([r.heap EXCEPT ![r.handle] = add_assistant_message(@, a, turn[t])],
                             Refs(_sessions', history'))
    /\ UNCHANGED <<FAQ, toolResult, nCalls, spoiled, resets>>

\* ---- the model answered: lines 124-125, then api.ask line 23 ----
Complete(t, a) ==
    /\ pc[t] = "await"
    /\ returned' = Returned("ask", "", [answer |-> a, session_id |-> session_id[t]])
    /\ completed' = [completed EXCEPT ![session_id[t]] = IF spoiled[session_id[t]] THEN @ ELSE @ + 1]
    /\ Return(t)
    /\ heap' = Collect([heap EXCEPT ![history[t]] = add_assistant_message(@, a, turn[t])],
                       Refs(_sessions, history'))
    /\ UNCHANGED <<FAQ, _sessions, toolResult, nCalls, spoiled, resets>>

\* Variant: ask_agent taking the question back when the model call raises.
FailRollback(t) ==
    /\ InFlight(t)
    /\ returned' = Returned("ask", ModelCallFailed, None)
    /\ spoiled' = [spoiled EXCEPT ![session_id[t]] = TRUE]
    /\ Return(t)
    /\ completed' = [completed EXCEPT ![session_id[t]] = 0]
    /\ heap' = Collect([heap EXCEPT ![history[t]] =
                            SubSeq(@, 1, turn[t] - 1) \o SubSeq(@, turn[t] + 1, Len(@))],
                       Refs(_sessions, history'))
    /\ UNCHANGED <<FAQ, _sessions, toolResult, nCalls, resets>>

\* ---- the model call raised: nothing catches it in ask_agent or api.ask ----
Fail(t) ==
    /\ InFlight(t)
    /\ returned' = Returned("ask", ModelCallFailed, None)
    /\ spoiled' = [spoiled EXCEPT ![session_id[t]] = TRUE]
    /\ Return(t)
    /\ completed' = [completed EXCEPT ![session_id[t]] = 0]
    /\ heap' = Collect(heap, Refs(_sessions, history'))
    /\ UNCHANGED <<FAQ, _sessions, toolResult, nCalls, resets>>

\* ---- POST /reset: api.reset calling reset_session ----
Reset(s) ==
    /\ LET r == reset_session(s)
       IN /\ _sessions' = IF r.raised THEN _sessions ELSE r.d
          /\ returned' = IF r.raised THEN Returned("reset", KeyError, None)
                         ELSE Returned("reset", "", [status |-> "reset", session_id |-> s])
    /\ heap' = Collect(heap, Refs(_sessions', history))
    /\ alone' = [u \in Tasks |-> IF InFlight(u) /\ session_id[u] = s THEN FALSE ELSE alone[u]]
    /\ spoiled' = [spoiled EXCEPT ![s] = TRUE]
    /\ resets' = [resets EXCEPT ![s] = Min(@ + 1, MaxResets)]
    /\ completed' = [completed EXCEPT ![s] = 0]
    /\ UNCHANGED <<FAQ, pc, session_id, question, history, turn, submitted,
                   toolResult, nCalls, prior>>

\* ---- a direct call of get_or_create_history ----
GetOrCreateHistory(s) ==
    /\ LET r == get_or_create_history(s)
       IN /\ _sessions' = r.sessions
          /\ heap' = Collect(r.heap, Refs(_sessions', history))
    /\ resets' = [resets EXCEPT ![s] = 0]
    /\ UNCHANGED <<FAQ, pc, session_id, question, history, turn, submitted, returned,
                   toolResult, nCalls, prior, alone, completed, spoiled>>

\* ---- the tool, called by the model inside invoke or directly ----
LookupFaq(k) ==
    /\ toolResult' = [tool |-> "blog-02", key |-> k, text |-> lookup_faq(k)]
    /\ UNCHANGED <<FAQ, _sessions, heap, pc, session_id, question, history, turn, submitted,
                   returned, nCalls, prior, alone, completed, spoiled, resets>>

LookupFaqV1(k) ==
    /\ toolResult' = [tool |-> "blog-01", key |-> k, text |-> lookup_faq_v1(k)]
    /\ UNCHANGED <<FAQ, _sessions, heap, pc, session_id, question, history, turn, submitted,
                   returned, nCalls, prior, alone, completed, spoiled, resets>>

Next ==
    \/ \E t \in Tasks, s \in Sessions, q \in Questions : AskStart(t, s, q)
    \/ \E t \in Tasks : Submit(t)
    \/ \E t \in Tasks, a \in Answers : Complete(t, a)
    \/ \E t \in Tasks : Fail(t)
    \/ \E s \in Sessions : Reset(s)
    \/ \E s \in Sessions : GetOrCreateHistory(s)

Spec == Init /\ [][Next]_vars

\* ---- the tool on its own, over every knowledge store load_faq_docs can produce ----
\* The tool runs either with no conversation at all or from inside invoke, that is
\* while a request is suspended in the model call with its question already stored.
InitInvoke ==
    LET q == CHOOSE x \in Questions : TRUE
        m == Message("user", q, 0)
    IN /\ _sessions = [s \in Sessions |-> IF s = "s1" THEN 1 ELSE None]
       /\ heap = [o \in Slots |-> IF o = 1 THEN <<m>> ELSE <<>>]
       /\ pc = [t \in Tasks |-> IF t = "t1" THEN "await" ELSE "idle"]
       /\ session_id = [t \in Tasks |-> IF t = "t1" THEN "s1" ELSE ""]
       /\ question = [t \in Tasks |-> IF t = "t1" THEN q ELSE ""]
       /\ history = [t \in Tasks |-> IF t = "t1" THEN 1 ELSE None]
       /\ turn = [t \in Tasks |-> IF t = "t1" THEN 1 ELSE 0]
       /\ submitted = [t \in Tasks |-> IF t = "t1" THEN <<m>> ELSE <<>>]
       /\ returned = Returned("", "", None)
       /\ toolResult = NoTool
       /\ nCalls = 1
       /\ prior = [t \in Tasks |-> <<>>]
       /\ alone = [t \in Tasks |-> t = "t1"]
       /\ completed = [s \in Sessions |-> 0]
       /\ spoiled = [s \in Sessions |-> FALSE]
       /\ resets = [s \in Sessions |-> 0]

InitFaq ==
    /\ FAQ \in FaqStores
    /\ InitStore \/ InitInvoke

NextFaq ==
    \/ \E k \in LookupKeys : LookupFaq(k)
    \/ \E k \in LookupKeys : LookupFaqV1(k)

SpecFaq == InitFaq /\ [][NextFaq]_vars

TypeOK ==
    /\ \A s \in Sessions : _sessions[s] \in Slots \cup {None}
    /\ \A t \in Tasks : history[t] \in Slots \cup {None}
    /\ DOMAIN heap = Slots
    /\ \A o \in Slots \ Refs(_sessions, history) : heap[o] = <<>>
    /\ \A t \in Tasks : pc[t] \in {"idle", "invoke", "await"}
    /\ nCalls \in 0..MaxCalls

\* ---- helpers of the properties ----
Busy(s) == \E t \in Tasks : InFlight(t) /\ session_id[t] = s

Count(h, role) == Cardinality({i \in DOMAIN h : h[i].role = role})

IsPrefix(a, b) == Len(a) <= Len(b) /\ SubSeq(b, 1, Len(a)) = a

\* The request holds a history object that the map no longer holds for its session.
Detached(t) == InFlight(t) /\ history[t] # _sessions[session_id[t]]

\* Some operation on session b takes this step.
OpOn(b) ==
    \/ \E t \in Tasks, q \in Questions : AskStart(t, b, q)
    \/ \E t \in Tasks : session_id[t] = b /\ Submit(t)
    \/ \E t \in Tasks, a \in Answers : session_id[t] = b /\ Complete(t, a)
    \/ \E t \in Tasks : session_id[t] = b /\ Fail(t)
    \/ Reset(b)
    \/ GetOrCreateHistory(b)

ResetOk(s) == Returned("reset", "", [status |-> "reset", session_id |-> s])

\* C1: no operation on a session b (ask_agent in any of its steps, get_or_create_history,
\* reset_session) changes another session a: neither whether the map holds a, nor which
\* history object it holds, nor that history's messages.
C1_SessionIsolation ==
    [][\A b \in Sessions : OpOn(b) =>
          \A a \in Sessions \ {b} :
              /\ _sessions'[a] = _sessions[a]
              /\ Stored(a)' = Stored(a)]_vars

C1_Witness ==
    \E a \in Sessions, b \in Sessions :
        /\ a # b
        /\ Len(Stored(a)) = 2
        /\ returned = ResetOk(b)
        /\ resets[b] >= 1

\* C2: a session never reset, none of whose ask_agent calls failed and none of which is
\* still running, stores exactly 2N messages after N returned calls: N user, N assistant.
C2_HistoryLength ==
    \A s \in Sessions :
        ~spoiled[s] /\ ~Busy(s) =>
            /\ Len(Stored(s)) = 2 * completed[s]
            /\ Count(Stored(s), "user") = completed[s]
            /\ Count(Stored(s), "assistant") = completed[s]

C2_Witness ==
    \E s \in Sessions :
        ~spoiled[s] /\ ~Busy(s) /\ completed[s] = 2 /\ Len(Stored(s)) = 4

\* C3: an ask_agent call that no other call and no reset on its session overlaps submits
\* to the model the messages stored when it entered, followed by its own user message;
\* the second such call of a session submits [user1, assistant1, user2]; and a history
\* object only ever grows at its end.
C3_Sequential ==
    \A t \in Tasks :
        pc[t] = "await" /\ alone[t] =>
            /\ submitted[t] = prior[t] \o <<Message("user", question[t], 0)>>
            /\ completed[session_id[t]] = 1 /\ ~spoiled[session_id[t]] =>
                  /\ Len(submitted[t]) = 3
                  /\ submitted[t][1].role = "user"
                  /\ submitted[t][2] = Message("assistant", submitted[t][2].content, 1)
                  /\ submitted[t][3] = Message("user", question[t], 0)

C3_AppendOnly ==
    \A o \in DOMAIN heap : o \in Refs(_sessions', history') => IsPrefix(heap[o], heap'[o])

C3_SubmittedHistory == [][C3_AppendOnly]_vars /\ []C3_Sequential

C3_Witness ==
    \E t \in Tasks :
        /\ pc[t] = "await" /\ alone[t]
        /\ completed[session_id[t]] = 1 /\ ~spoiled[session_id[t]]
        /\ Len(submitted[t]) = 3

\* C4: reset_session removes the session, and the first get_or_create_history after a
\* reset (called directly or by ask_agent) gets an empty history registered for it.
C4_ResetThenCreate ==
    [][\A s \in Sessions :
          /\ Reset(s) => ~Registered(s)'
          /\ resets[s] >= 1 /\ GetOrCreateHistory(s) => Registered(s)' /\ Stored(s)' = <<>>
          /\ \A t \in Tasks, q \in Questions :
                resets[s] >= 1 /\ AskStart(t, s, q) =>
                    prior'[t] = <<>> /\ history'[t] = _sessions'[s]]_vars

\* The old history still exists (a suspended request holds it) while the map holds a new, empty one.
C4_Witness ==
    \E t \in Tasks :
        /\ Detached(t)
        /\ Len(heap[history[t]]) >= 1
        /\ Registered(session_id[t])
        /\ Stored(session_id[t]) = <<>>

\* C5: when the model call fails, the caller gets ModelCallFailed, no stored history
\* changes (no assistant message, no rollback), the user message stays where it was
\* appended, and for a call nothing overlapped the stored history is the content at
\* entry followed by that user message.
C5_FailureKeepsQuestion ==
    [][\A t \in Tasks, s \in Sessions : session_id[t] = s /\ Fail(t) =>
          LET m == Message("user", question[t], 0)
          IN /\ returned' = Returned("ask", ModelCallFailed, None)
             /\ _sessions' = _sessions
             /\ \A x \in Sessions : Stored(x)' = Stored(x)
             /\ ~Detached(t) => /\ Len(Stored(s)') >= turn[t]
                                /\ Stored(s)'[turn[t]] = m
                                /\ \A i \in DOMAIN Stored(s)' : Stored(s)'[i].re # turn[t]
             /\ alone[t] => Stored(s)' = prior[t] \o <<m>>]_vars

C5_Witness ==
    \E s \in Sessions :
        /\ returned = Returned("ask", ModelCallFailed, None)
        /\ ~Busy(s)
        /\ Len(Stored(s)) = 3
        /\ Stored(s)[3].role = "user"

\* C6: reset on a session the map does not hold (never created, or already reset)
\* raises nothing, returns {status: "reset", session_id: sid}, and changes neither the
\* map nor any history; so a second reset in a row behaves as the first.
C6_ResetIdempotent ==
    [][\A s \in Sessions : Reset(s) =>
          /\ returned' = ResetOk(s)
          /\ ~Registered(s)'
          /\ ~Registered(s) => _sessions' = _sessions /\ heap' = heap]_vars

C6_Witness ==
    \E s \in Sessions :
        /\ resets[s] = 2
        /\ returned = ResetOk(s)
        /\ ~Registered(s)
        /\ \E x \in Sessions : Len(Stored(x)) >= 1

\* C7: lookup_faq returns the stored content for a key of the knowledge store (an exact
\* match) and the tool's one sentinel for any other key, in both versions of the tool;
\* it raises nothing and changes neither the knowledge store nor any session state.
C7_Result ==
    toolResult # NoTool =>
        LET sentinel == IF toolResult.tool = "blog-02" THEN NotFound ELSE NotFoundV1
        IN /\ toolResult.key \in DOMAIN FAQ => toolResult.text = FAQ[toolResult.key]
           /\ toolResult.key \notin DOMAIN FAQ => toolResult.text = sentinel

C7_Frame ==
    (\E k \in LookupKeys : LookupFaq(k) \/ LookupFaqV1(k)) =>
        /\ FAQ' = FAQ
        /\ _sessions' = _sessions
        /\ heap' = heap
        /\ toolResult'.key \in LookupKeys

C7_Lookup == []C7_Result /\ [][C7_Frame]_vars

\* An empty document is found and returned as it is, while a request is in the model call.
C7_Witness ==
    /\ toolResult.tool = "blog-02"
    /\ toolResult.key \in DOMAIN FAQ
    /\ toolResult.text = ""
    /\ "incident-sev1" \notin DOMAIN FAQ
    /\ \E t \in Tasks : pc[t] = "await"

\* C8: the map never replaces the history object of a registered session by another
\* one; every ask_agent call gets the object the map holds; and a running call stops
\* holding the map's object only through a reset of its session.
C8_OneHistoryPerId ==
    [][/\ \A s \in Sessions :
            /\ Registered(s) /\ Registered(s)' => _sessions'[s] = _sessions[s]
            /\ \A t \in Tasks, q \in Questions : AskStart(t, s, q) =>
                  /\ history'[t] = _sessions'[s]
                  /\ Registered(s) => history'[t] = _sessions[s]
            /\ Registered(s) /\ GetOrCreateHistory(s) => _sessions' = _sessions /\ heap' = heap
       /\ \A t \in Tasks :
            InFlight(t) /\ ~Detached(t) /\ InFlight(t)' /\ Detached(t)' => Reset(session_id[t])]_vars

C8_Witness ==
    \E t1 \in Tasks, t2 \in Tasks :
        /\ t1 # t2
        /\ InFlight(t1) /\ InFlight(t2)
        /\ session_id[t1] = session_id[t2]
        /\ history[t1] = history[t2]
        /\ history[t1] = _sessions[session_id[t1]]

\* C9: ask_agent takes no lock: a call can start on a session whatever other calls are
\* running on it; while two calls run on one history object both user messages are in
\* it, neither answered, and the later call's model input holds the earlier call's
\* unanswered user message; and when both wait for the model either can complete first.
C9_NotSerialized ==
    /\ \A t \in Tasks, s \in Sessions :
          pc[t] = "idle" /\ nCalls < MaxCalls =>
              ENABLED (\E q \in Questions : AskStart(t, s, q))
    /\ \A t1 \in Tasks, t2 \in Tasks :
          InFlight(t1) /\ InFlight(t2) /\ history[t1] = history[t2] /\ turn[t1] < turn[t2] =>
              LET h == heap[history[t1]]
              IN /\ h[turn[t1]].role = "user" /\ h[turn[t2]].role = "user"
                 /\ \A i \in DOMAIN h : h[i].re \notin {turn[t1], turn[t2]}
                 /\ pc[t2] = "await" =>
                       /\ submitted[t2][turn[t1]] = h[turn[t1]]
                       /\ \A i \in DOMAIN submitted[t2] : submitted[t2][i].re # turn[t1]
                 /\ pc[t1] = "await" /\ pc[t2] = "await" =>
                       /\ ENABLED (\E a \in Answers : Complete(t1, a))
                       /\ ENABLED (\E a \in Answers : Complete(t2, a))

\* Two user messages in a row, and the reply to the second stored before the reply to
\* the first.
C9_Witness ==
    \E s \in Sessions :
        LET h == Stored(s)
        IN /\ Len(h) = 4
           /\ h[1].role = "user" /\ h[2].role = "user"
           /\ h[3] = Message("assistant", h[3].content, 2)
           /\ h[4] = Message("assistant", h[4].content, 1)

\* C10: a reset during a running ask_agent call leaves the call its history object,
\* which the map no longer holds and never holds again; when the call completes it
\* returns its answer, and the map and the history the map holds for the session
\* (if any) stay as they were.
C10_ResetDuringCall ==
    [][\A t \in Tasks, s \in Sessions : InFlight(t) /\ session_id[t] = s =>
          /\ Reset(s) =>
                /\ Detached(t)'
                /\ history'[t] = history[t]
                /\ heap'[history[t]] = heap[history[t]]
          /\ Detached(t) /\ InFlight(t)' => Detached(t)'
          /\ \A a \in Answers : Detached(t) /\ Complete(t, a) =>
                /\ returned' = Returned("ask", "", [answer |-> a, session_id |-> s])
                /\ _sessions' = _sessions
                /\ Stored(s)' = Stored(s)]_vars

\* The last call to finish is an ask_agent call that returned an answer, and the map
\* holds nothing for its session.
C10_Witness ==
    /\ returned.op = "ask"
    /\ returned.raised = ""
    /\ ~Registered(returned.value.session_id)
    /\ ~Busy(returned.value.session_id)
====
